---- MODULE Spec2Model ----
(***************************************************************************)
(* Model of watcher.py, the Nginx log watcher of a blue/green deployment.  *)
(*                                                                         *)
(* The watcher keeps a sliding window of the last WINDOW_SIZE requests, a  *)
(* failover/recovery tracker (last_known_pool, failover_occurred,          *)
(* failover_from_pool) and a cooldown table (last_alert_times).  Each      *)
(* parsed log record runs process_log_entry: append to the window,         *)
(* check_failover, check_recovery, check_error_rate, each of which may     *)
(* call send_slack_alert, the alert gate and notifier.                     *)
(*                                                                         *)
(* Time is an integer number of seconds.  The variable clock is the last   *)
(* instant datetime.now() returned; every later read returns an instant    *)
(* that is not smaller (a non-decreasing clock).                           *)
(***************************************************************************)
EXTENDS Integers, Sequences, FiniteSets

VARIABLES
    request_window,        \* deque(maxlen=WINDOW_SIZE) of window entries
    last_known_pool,       \* Optional[str]
    failover_occurred,     \* bool
    failover_from_pool,    \* Optional[str]
    last_alert_times,      \* alert kind -> instant of the last alert sent
    SLACK_WEBHOOK_URL,     \* TRUE iff the environment sets a webhook URL
    MAINTENANCE_MODE,      \* the MAINTENANCE_MODE environment flag
    maintenance_flag_file, \* TRUE iff MAINTENANCE_FLAG_FILE exists
    clock,                 \* the last instant read from datetime.now()
    breach_calls,          \* the calls of log_error_rate_breach so far
    last_line,             \* history: the last line the tail loop read,
                           \*   empty before the first
    records,               \* history: the parsed records processed so far
    emitted,               \* history: the calls of the last
                           \*   process_log_entry, in call order: the kind
                           \*   of each send_slack_alert, "breach" for
                           \*   log_error_rate_breach
    lastCall,              \* history: per kind, the most recent
                           \*   send_slack_alert call and what became of it,
                           \*   with the result and instant of the one before
    pc,                    \* where main / tail_log_file stands
    follower,              \* the tail -F child: "none", "running" or
                           \*   "terminated"
    interrupted            \* history: an interrupt signal has been received

vars == <<request_window, last_known_pool, failover_occurred,
          failover_from_pool, last_alert_times, SLACK_WEBHOOK_URL,
          MAINTENANCE_MODE, maintenance_flag_file, clock, breach_calls,
          last_line, records, emitted, lastCall, pc, follower,
          interrupted>>

----------------------------------------------------------------------------
(* Configuration.  The environment fixes these at start-up; the values     *)
(* are those of the end-to-end scenario (window 4, threshold 25 percent)   *)
(* and a cooldown of two seconds.                                          *)

ERROR_RATE_THRESHOLD == 25
WINDOW_SIZE == 4
ALERT_COOLDOWN_SEC == 2

\* datetime.min: smaller than any clock reading by more than any cooldown.
DATETIME_MIN == -1000

(* Bounds of the model.                                                    *)
MaxRecords == 4         \* records processed in one run of Spec
MaxConsoleRecords == 7  \* records processed in one run of SpecConsole
MaxErrorRecords == 6    \* records processed in one run of SpecErrors
MaxNotifierRecords == 4 \* records processed in one run of SpecNotifier
MaxTailRecords == 4     \* records processed in one run of SpecTail
MaxClock == 2           \* the largest instant the clock reaches

None == "None"      \* Python's None
NoTime == 0 - 1     \* history only: the call did not read the clock

Kinds == {"failover", "error_rate", "recovery"}
Pools == {"blue", "green", "-"}
Statuses == {200, 500}
Outcomes == {"ok", "error", "timeout"}

\* The parsed records the log source may deliver.
ParsedRecords == [pool : Pools, status : Statuses]

----------------------------------------------------------------------------
(* The sliding window.                                                     *)

\* process_log_entry: is_error and the dictionary put in the window.
is_error(status) == 500 <= status /\ status < 600

WindowEntry(data) ==
    [pool |-> data.pool, status |-> data.status,
     is_error |-> is_error(data.status)]

\* Variant: a full window drops its newest entry instead of its oldest.
WindowAppend_DropNewest(window, entry) ==
    IF Len(window) < WINDOW_SIZE
    THEN Append(window, entry)
    ELSE Append(SubSeq(window, 1, Len(window) - 1), entry)

\* deque(maxlen=WINDOW_SIZE).append: drop the oldest entry when full.
WindowAppend(window, entry) ==
    IF Len(window) < WINDOW_SIZE
    THEN Append(window, entry)
    ELSE Append(Tail(window), entry)

RECURSIVE ErrorCount(_)
ErrorCount(window) ==
    IF window = <<>> THEN 0
    ELSE (IF Head(window).is_error THEN 1 ELSE 0) + ErrorCount(Tail(window))

\* Variant: the total is the capacity of the window, not its length.
get_current_error_rate_Capacity(window) ==
    IF Len(window) = 0
    THEN <<[num |-> 0, den |-> 1], 0, 0>>
    ELSE <<[num |-> ErrorCount(window) * 100, den |-> WINDOW_SIZE],
           ErrorCount(window), WINDOW_SIZE>>

\* get_current_error_rate: (error_rate, error_count, total_count).  The rate
\* (error_count / total_count) * 100 is kept as the fraction num / den.
get_current_error_rate(window) ==
    IF Len(window) = 0
    THEN <<[num |-> 0, den |-> 1], 0, 0>>
    ELSE <<[num |-> ErrorCount(window) * 100, den |-> Len(window)],
           ErrorCount(window), Len(window)>>

\* Variant: the threshold comparison is not strict.
RateExceeds_NotStrict(error_count, total_count) ==
    error_count * 100 >= ERROR_RATE_THRESHOLD * total_count

\* error_rate > ERROR_RATE_THRESHOLD with error_rate = count / total * 100.
\* The comparison is done on integers; the floating-point quotient is exact
\* for the window sizes of the model.
RateExceeds(error_count, total_count) ==
    error_count * 100 > ERROR_RATE_THRESHOLD * total_count

----------------------------------------------------------------------------
(* The alert gate and notifier: send_slack_alert.                          *)

\* Variant: the flag file is not consulted.
is_maintenance_mode_EnvOnly == MAINTENANCE_MODE

\* MAINTENANCE_MODE, or MAINTENANCE_FLAG_FILE exists.
is_maintenance_mode == MAINTENANCE_MODE \/ maintenance_flag_file

\* Variant: an alert exactly one cooldown after the last is still suppressed.
CooldownActive_Inclusive(now, last_alert) ==
    now - last_alert <= ALERT_COOLDOWN_SEC

\* Variant: the cooldown ends one second early.
CooldownActive_OneShort(now, last_alert) ==
    now - last_alert < ALERT_COOLDOWN_SEC - 1

\* now - last_alert < timedelta(seconds=ALERT_COOLDOWN_SEC)
CooldownActive(now, last_alert) == now - last_alert < ALERT_COOLDOWN_SEC

\* Variant: one cooldown budget shared by all kinds, the latest alert of
\* any kind.
LastAlert_Shared(lat, alert_type) ==
    CHOOSE t \in {lat[k] : k \in DOMAIN lat} :
        \A k \in DOMAIN lat : lat[k] <= t

\* The cooldown entry consulted for a kind.
LastAlert(lat, alert_type) == lat[alert_type]

\* Variant: the table records the instant read after the gate check.
RecordAlertTime_Late(lat, alert_type, now, footer_now) ==
    [lat EXCEPT ![alert_type] = footer_now]

\* last_alert_times[alert_type] = now, after a successful post.  footer_now
\* is the later instant read for the message's timestamp footer.
RecordAlertTime(lat, alert_type, now, footer_now) ==
    [lat EXCEPT ![alert_type] = now]

\* Variant: the table is updated whether or not the post succeeded.
AfterPost_Always(lat, alert_type, now, footer_now, outcome) ==
    RecordAlertTime(lat, alert_type, now, footer_now)

\* What the table is after the post: updated only when the post succeeded.
AfterPost(lat, alert_type, now, footer_now, outcome) ==
    IF outcome = "ok"
    THEN RecordAlertTime(lat, alert_type, now, footer_now)
    ELSE lat

\* The possible results of one call: the table, the clock, what happened
\* (no_webhook, maintenance, cooldown, sent, failed) and, when the gate read
\* the clock, the instant it read.
send_slack_alert(alert_type, lat, clk) ==
    IF ~SLACK_WEBHOOK_URL
    THEN {[lat |-> lat, clock |-> clk, result |-> "no_webhook", at |-> NoTime]}
    ELSE IF is_maintenance_mode
    THEN {[lat |-> lat, clock |-> clk, result |-> "maintenance", at |-> NoTime]}
    ELSE UNION {
        IF CooldownActive(now, LastAlert(lat, alert_type))
        THEN {[lat |-> lat, clock |-> now, result |-> "cooldown", at |-> now]}
        ELSE {[lat |-> AfterPost(lat, alert_type, now, footer_now, outcome),
               clock |-> footer_now,
               result |-> IF outcome = "ok" THEN "sent" ELSE "failed",
               at |-> now]
              : footer_now \in now..MaxClock, outcome \in Outcomes}
        : now \in clk..MaxClock }

----------------------------------------------------------------------------
(* The failover / recovery tracker.                                        *)

NoAlert == [alert_type |-> "none", from_pool |-> None, to_pool |-> None]

\* Variant: the sentinel '-' is taken for a pool.
UnknownPool_SentinelForgotten(pool) == pool = ""

\* Variant: the empty pool is taken for a pool name.
UnknownPool_EmptyForgotten(pool) == pool = "-"

\* not pool or pool == '-'
UnknownPool(pool) == pool = "" \/ pool = "-"

\* Variant: the pool moved to is recorded as the origin.
TrackFailover_OriginIsNewPool(ms, pool) ==
    [last_known_pool |-> pool,
     failover_occurred |-> TRUE,
     failover_from_pool |-> pool]

\* Variant: the origin of the first failover is kept by the later ones.
TrackFailover_FirstOriginKept(ms, pool) ==
    [last_known_pool |-> pool,
     failover_occurred |-> TRUE,
     failover_from_pool |-> IF ms.failover_occurred
                            THEN ms.failover_from_pool
                            ELSE ms.last_known_pool]

\* Variant: last_known_pool does not move to the new pool.
TrackFailover_PoolNotMoved(ms, pool) ==
    [last_known_pool |-> ms.last_known_pool,
     failover_occurred |-> TRUE,
     failover_from_pool |-> ms.last_known_pool]

\* Variant: the origin of the failover is not recorded.
TrackFailover_FlagOnly(ms, pool) ==
    [last_known_pool |-> pool,
     failover_occurred |-> TRUE,
     failover_from_pool |-> ms.failover_from_pool]

\* The tracker after a detected pool change.
TrackFailover(ms, pool) ==
    [last_known_pool |-> pool,
     failover_occurred |-> TRUE,
     failover_from_pool |-> ms.last_known_pool]

\* check_failover: the tracker after the call and the alert it asked for.
check_failover(ms, pool) ==
    IF UnknownPool(pool)
    THEN [ms |-> ms, alert |-> NoAlert]
    ELSE IF ms.last_known_pool = None
    THEN [ms |-> [ms EXCEPT !.last_known_pool = pool], alert |-> NoAlert]
    ELSE IF pool # ms.last_known_pool
    THEN [ms |-> TrackFailover(ms, pool),
          alert |-> [alert_type |-> "failover",
                     from_pool |-> ms.last_known_pool, to_pool |-> pool]]
    ELSE [ms |-> ms, alert |-> NoAlert]

\* check_recovery: the tracker after the call and the alert it asked for.
check_recovery(ms, pool) ==
    IF ~ms.failover_occurred \/ ms.failover_from_pool \in {None, ""}
    THEN [ms |-> ms, alert |-> NoAlert]
    ELSE IF pool = ms.failover_from_pool
    THEN [ms |-> [ms EXCEPT !.failover_occurred = FALSE,
                            !.failover_from_pool = None],
          alert |-> [alert_type |-> "recovery",
                     from_pool |-> ms.last_known_pool, to_pool |-> pool]]
    ELSE [ms |-> ms, alert |-> NoAlert]

\* Variant: the breach is logged after the alert has been through the gate.
check_error_rate_AlertFirst(window) ==
    IF Len(window) < WINDOW_SIZE
    THEN [breaches |-> <<>>, calls |-> <<>>]
    ELSE IF RateExceeds(ErrorCount(window), Len(window))
    THEN [breaches |-> <<[error_count |-> ErrorCount(window),
                          total_count |-> Len(window),
                          pool |-> window[Len(window)].pool]>>,
          calls |-> <<[alert_type |-> "error_rate", from_pool |-> None,
                       to_pool |-> window[Len(window)].pool],
                      [alert_type |-> "breach", from_pool |-> None,
                       to_pool |-> window[Len(window)].pool]>>]
    ELSE [breaches |-> <<>>, calls |-> <<>>]

\* check_error_rate, on the window after the append: the arguments of the
\* log_error_rate_breach call it makes (one or none) and its calls in the
\* order it makes them, log_error_rate_breach and then send_slack_alert.
check_error_rate(window) ==
    IF Len(window) < WINDOW_SIZE
    THEN [breaches |-> <<>>, calls |-> <<>>]
    ELSE IF RateExceeds(ErrorCount(window), Len(window))
    THEN [breaches |-> <<[error_count |-> ErrorCount(window),
                          total_count |-> Len(window),
                          pool |-> window[Len(window)].pool]>>,
          calls |-> <<[alert_type |-> "breach", from_pool |-> None,
                       to_pool |-> window[Len(window)].pool],
                      [alert_type |-> "error_rate", from_pool |-> None,
                       to_pool |-> window[Len(window)].pool]>>]
    ELSE [breaches |-> <<>>, calls |-> <<>>]

----------------------------------------------------------------------------
(* process_log_entry.                                                      *)

IsAlert(a) == a.alert_type \in Kinds

\* The send_slack_alert calls of one record, made one after the other: the
\* possible final tables and clocks, with each call's result.
RECURSIVE Dispatch(_, _, _)
Dispatch(alerts, lat, clk) ==
    IF alerts = <<>>
    THEN {[lat |-> lat, clock |-> clk, calls |-> <<>>]}
    ELSE UNION {
        {[lat |-> rest.lat, clock |-> rest.clock,
          calls |-> <<[alert_type |-> Head(alerts).alert_type,
                       from_pool |-> Head(alerts).from_pool,
                       to_pool |-> Head(alerts).to_pool,
                       result |-> s.result, at |-> s.at]>> \o rest.calls]
         : rest \in Dispatch(Tail(alerts), s.lat, s.clock)}
        : s \in send_slack_alert(Head(alerts).alert_type, lat, clk) }

NoCall == [from_pool |-> None, to_pool |-> None,
           result |-> "none", at |-> NoTime,
           prev_result |-> "none", prev_at |-> NoTime]

\* History: the record kept of a call, given the record of the call of the
\* same kind before it.
CallRecord(call, before) ==
    [from_pool |-> call.from_pool, to_pool |-> call.to_pool,
     result |-> call.result, at |-> call.at,
     prev_result |-> before.result, prev_at |-> before.at]

MonitorState ==
    [last_known_pool |-> last_known_pool,
     failover_occurred |-> failover_occurred,
     failover_from_pool |-> failover_from_pool]

\* Variant: check_error_rate runs before the append and before the tracker
\* checks.
HandlerChecks_RateFirst(data) ==
    LET e == check_error_rate(request_window)
        window == WindowAppend(request_window, WindowEntry(data))
        f == check_failover(MonitorState, data.pool)
        r == check_recovery(f.ms, data.pool)
    IN [window |-> window,
        ms |-> r.ms,
        breaches |-> e.breaches,
        calls |-> e.calls \o SelectSeq(<<f.alert>>, IsAlert)
                    \o SelectSeq(<<r.alert>>, IsAlert)]

\* The body of process_log_entry on one record: the append, then
\* check_failover, check_recovery and check_error_rate in this order.  The
\* window and tracker it leaves, and the calls it makes in order.
HandlerChecks(data) ==
    LET window == WindowAppend(request_window, WindowEntry(data))
        f == check_failover(MonitorState, data.pool)
        r == check_recovery(f.ms, data.pool)
        e == check_error_rate(window)
    IN [window |-> window,
        ms |-> r.ms,
        breaches |-> e.breaches,
        calls |-> SelectSeq(<<f.alert>>, IsAlert)
                    \o SelectSeq(<<r.alert>>, IsAlert) \o e.calls]

\* Variant: a failover whose alert did not go out is not kept in the tracker.
TrackerAfter_SentOnly(ms, calls) ==
    IF \E i \in DOMAIN calls :
         calls[i].alert_type = "failover" /\ calls[i].result # "sent"
    THEN [ms EXCEPT !.failover_occurred = FALSE, !.failover_from_pool = None]
    ELSE ms

\* What the tracker keeps of the checks' result.  The value send_slack_alert
\* returns is not used.
TrackerAfter(ms, calls) == ms

process_log_entry(data) ==
    /\ \E h \in {HandlerChecks(data)} :
       \E run \in Dispatch(SelectSeq(h.calls, IsAlert),
                            last_alert_times, clock) :
       \E ms \in {TrackerAfter(h.ms, run.calls)} :
            /\ request_window' = h.window
            /\ last_known_pool' = ms.last_known_pool
            /\ failover_occurred' = ms.failover_occurred
            /\ failover_from_pool' = ms.failover_from_pool
            /\ last_alert_times' = run.lat
            /\ clock' = run.clock
            /\ breach_calls' = breach_calls \o h.breaches
            /\ records' = Append(records, data)
            /\ emitted' = [i \in 1..Len(h.calls) |-> h.calls[i].alert_type]
            /\ lastCall' = [k \in Kinds |->
                  IF \E i \in 1..Len(run.calls) : run.calls[i].alert_type = k
                  THEN CallRecord(
                         run.calls[CHOOSE i \in 1..Len(run.calls) :
                                       run.calls[i].alert_type = k],
                         lastCall[k])
                  ELSE lastCall[k]]
    /\ UNCHANGED <<SLACK_WEBHOOK_URL, MAINTENANCE_MODE, maintenance_flag_file>>

\* The operator creates or removes MAINTENANCE_FLAG_FILE.
CreateMaintenanceFlag ==
    /\ ~maintenance_flag_file
    /\ maintenance_flag_file' = TRUE
    /\ UNCHANGED <<request_window, last_known_pool, failover_occurred,
                   failover_from_pool, last_alert_times, SLACK_WEBHOOK_URL,
                   MAINTENANCE_MODE, clock, breach_calls, last_line, records,
                   emitted, lastCall, pc, follower, interrupted>>

RemoveMaintenanceFlag ==
    /\ maintenance_flag_file
    /\ maintenance_flag_file' = FALSE
    /\ UNCHANGED <<request_window, last_known_pool, failover_occurred,
                   failover_from_pool, last_alert_times, SLACK_WEBHOOK_URL,
                   MAINTENANCE_MODE, clock, breach_calls, last_line, records,
                   emitted, lastCall, pc, follower, interrupted>>

\* One iteration of the tail loop on a line that parse_log_line has turned
\* into a record.
ProcessRecord ==
    \E data \in ParsedRecords :
        /\ Len(records) < MaxRecords
        /\ process_log_entry(data)
        /\ UNCHANGED <<last_line, pc, follower, interrupted>>

ProcessConsoleRecord ==
    \E data \in ParsedRecords :
        /\ Len(records) < MaxConsoleRecords
        /\ process_log_entry(data)
        /\ UNCHANGED <<last_line, pc, follower, interrupted>>

\* The module globals after import.
ModuleState ==
    /\ request_window = <<>>
    /\ last_known_pool = None
    /\ failover_occurred = FALSE
    /\ failover_from_pool = None
    /\ last_alert_times = [k \in Kinds |-> DATETIME_MIN]
    /\ SLACK_WEBHOOK_URL \in BOOLEAN
    /\ MAINTENANCE_MODE \in BOOLEAN
    /\ maintenance_flag_file \in BOOLEAN
    /\ clock = 0
    /\ breach_calls = <<>>
    /\ last_line = <<>>
    /\ records = <<>>
    /\ emitted = <<>>
    /\ lastCall = [k \in Kinds |-> NoCall]
    /\ interrupted = FALSE

\* The runs of the monitoring specifications start in the loop of
\* tail_log_file, the follower running.
Init ==
    /\ ModuleState
    /\ pc = "loop"
    /\ follower = "running"

Next ==
    \/ ProcessRecord
    \/ CreateMaintenanceFlag
    \/ RemoveMaintenanceFlag

Spec == Init /\ [][Next]_vars

\* Console-only mode, the configuration of an empty environment: no webhook
\* URL and MAINTENANCE_MODE unset.  Every alert is printed and none is sent,
\* so the run depends on the records alone and longer runs are explored.
InitConsole == Init /\ ~SLACK_WEBHOOK_URL /\ ~MAINTENANCE_MODE

NextConsole ==
    \/ ProcessConsoleRecord
    \/ CreateMaintenanceFlag
    \/ RemoveMaintenanceFlag

SpecConsole == InitConsole /\ [][NextConsole]_vars

\* One pool and every configuration: the runs in which only the error rate
\* raises alerts, long enough for a second error_rate alert.
ErrorRecords == [pool : {"blue"}, status : Statuses]

ProcessErrorRecord ==
    \E data \in ErrorRecords :
        /\ Len(records) < MaxErrorRecords
        /\ process_log_entry(data)
        /\ UNCHANGED <<last_line, pc, follower, interrupted>>

NextErrors ==
    \/ ProcessErrorRecord
    \/ CreateMaintenanceFlag
    \/ RemoveMaintenanceFlag

SpecErrors == Init /\ [][NextErrors]_vars

\* Two pools under load and every configuration: the runs in which one record
\* can raise a failover and an error_rate alert, each with every outcome.
NotifierRecords ==
    {[pool |-> "blue", status |-> 500], [pool |-> "green", status |-> 500],
     [pool |-> "blue", status |-> 200]}

ProcessNotifierRecord ==
    \E data \in NotifierRecords :
        /\ Len(records) < MaxNotifierRecords
        /\ process_log_entry(data)
        /\ UNCHANGED <<last_line, pc, follower, interrupted>>

NextNotifier ==
    \/ ProcessNotifierRecord
    \/ CreateMaintenanceFlag
    \/ RemoveMaintenanceFlag

SpecNotifier == Init /\ [][NextNotifier]_vars

----------------------------------------------------------------------------
(* Log lines and the parser.  A line, after strip(), is the sequence of    *)
(* its whitespace-separated tokens; a token key=value is a record.         *)

Field(key, value) == [key |-> key, value |-> value]

\* The keys of LOG_PATTERN, in its order.
FieldOrder ==
    <<"pool", "release", "status", "upstream_status", "upstream",
      "request_time", "upstream_response_time", "method", "uri", "time">>

\* The characters of the status texts that occur in the lines of the model.
Chars(text) ==
    CASE text = "200" -> <<"2", "0", "0">>
      [] text = "500" -> <<"5", "0", "0">>
      [] text = "abc" -> <<"a", "b", "c">>
      [] text = "-" -> <<"-">>
      [] text = "" -> <<>>

DigitValue(c) ==
    CASE c = "0" -> 0 [] c = "1" -> 1 [] c = "2" -> 2 [] c = "3" -> 3
      [] c = "4" -> 4 [] c = "5" -> 5 [] c = "6" -> 6 [] c = "7" -> 7
      [] c = "8" -> 8 [] c = "9" -> 9

IsDigit(c) == c \in {"0", "1", "2", "3", "4", "5", "6", "7", "8", "9"}

\* \d+ : one digit or more, nothing else.
IsDigits(chars) == chars # <<>> /\ \A i \in DOMAIN chars : IsDigit(chars[i])

\* int() of a string of digits.
RECURSIVE int(_)
int(chars) ==
    IF chars = <<>> THEN 0
    ELSE 10 * int(SubSeq(chars, 1, Len(chars) - 1))
           + DigitValue(chars[Len(chars)])

\* The ten fields of LOG_PATTERN stand at tokens k+1 .. k+10 of the line:
\* each key in its place, the status a \d+.  Text after the time field is
\* not looked at.
FieldsAt(line, k) ==
    /\ Len(line) >= k + Len(FieldOrder)
    /\ \A i \in DOMAIN FieldOrder : line[k + i].key = FieldOrder[i]
    /\ IsDigits(Chars(line[k + 3].value))

\* match.groupdict(), the groups the watcher uses.
GroupDict(line, k) ==
    [pool |-> line[k + 1].value, status |-> line[k + 3].value]

\* Variant: the pattern is searched for anywhere in the line.
LOG_PATTERN_search(line) ==
    IF \E k \in 0..Len(line) : FieldsAt(line, k)
    THEN <<GroupDict(line, CHOOSE k \in 0..Len(line) : FieldsAt(line, k))>>
    ELSE <<>>

\* LOG_PATTERN.match(line.strip()): anchored at the start of the line.  The
\* result is <<>> for no match, else the one-element sequence of the groups.
LOG_PATTERN_match(line) ==
    IF FieldsAt(line, 0) THEN <<GroupDict(line, 0)>> ELSE <<>>

\* parse_log_line returns None.
NoData == [pool |-> None, status |-> NoTime]

\* parse_log_line.  int() raises ValueError on a text that is not an
\* integer literal, and the status is then 0.
parse_log_line(line) ==
    LET match == LOG_PATTERN_match(line)
    IN IF match = <<>>
       THEN NoData
       ELSE [pool |-> match[1].pool,
             status |-> IF IsDigits(Chars(match[1].status))
                        THEN int(Chars(match[1].status))
                        ELSE 0]

\* A well-formed line but for the pool and status given.
LogLine(pool, status) ==
    <<Field("pool", pool), Field("release", "v1"), Field("status", status),
      Field("upstream_status", status), Field("upstream", "app:80"),
      Field("request_time", "0.01"), Field("upstream_response_time", "0.01"),
      Field("method", "GET"), Field("uri", "/version"),
      Field("time", "t")>>

\* The lines the log source delivers: matching lines over three pools and the
\* two unknown pools, one with text after the last field, and lines that
\* lack a field, have two fields swapped, start with a foreign token, carry
\* a status that is not a number, or are empty.
TailLines ==
    { LogLine("blue", "200"), LogLine("blue", "500"),
      LogLine("green", "500"), LogLine("canary", "500"),
      LogLine("-", "500"), LogLine("", "500"),
      LogLine("blue", "200") \o <<Field("agent", "curl")>>,
      <<LogLine("blue", "500")[1]>> \o SubSeq(LogLine("blue", "500"), 3, 10),
      <<LogLine("green", "500")[2], LogLine("green", "500")[1]>>
          \o SubSeq(LogLine("green", "500"), 3, 10),
      <<Field("host", "lb")>> \o LogLine("green", "500"),
      LogLine("green", "abc"), LogLine("green", "-"),
      <<>> }

\* One turn of the loop of tail_log_file: read a line, parse it, and hand
\* the record to process_log_entry if there is one.
TailLine ==
    \E line \in TailLines :
        /\ pc = "loop"
        /\ UNCHANGED <<pc, follower, interrupted>>
        /\ last_line' = line
        /\ LET data == parse_log_line(line)
           IN IF data # NoData
              THEN /\ Len(records) < MaxTailRecords
                   /\ process_log_entry(data)
              ELSE UNCHANGED <<request_window, last_known_pool,
                               failover_occurred, failover_from_pool,
                               last_alert_times, SLACK_WEBHOOK_URL,
                               MAINTENANCE_MODE, maintenance_flag_file,
                               clock, breach_calls, records, emitted,
                               lastCall>>

NextTail == TailLine

SpecTail == InitConsole /\ [][NextTail]_vars

----------------------------------------------------------------------------
(* tail_log_file from its entry to its end, and the interrupt signal.      *)
(* Python raises KeyboardInterrupt in the main thread between two          *)
(* bytecodes, wherever the thread stands.                                  *)

\* The wait for the log file ends: os.path.exists(log_file) is true.
LogFileFound ==
    /\ pc = "waiting"
    /\ pc' = "spawn"
    /\ UNCHANGED <<request_window, last_known_pool, failover_occurred,
                   failover_from_pool, last_alert_times, SLACK_WEBHOOK_URL,
                   MAINTENANCE_MODE, maintenance_flag_file, clock,
                   breach_calls, last_line, records, emitted, lastCall,
                   follower, interrupted>>

\* subprocess.Popen(['tail', '-F', ...]) returns.
StartFollower ==
    /\ pc = "spawn"
    /\ pc' = "started"
    /\ follower' = "running"
    /\ UNCHANGED <<request_window, last_known_pool, failover_occurred,
                   failover_from_pool, last_alert_times, SLACK_WEBHOOK_URL,
                   MAINTENANCE_MODE, maintenance_flag_file, clock,
                   breach_calls, last_line, records, emitted, lastCall,
                   interrupted>>

\* The try block is entered and the loop waits for its first line.
EnterLoop ==
    /\ pc = "started"
    /\ pc' = "loop"
    /\ UNCHANGED <<request_window, last_known_pool, failover_occurred,
                   failover_from_pool, last_alert_times, SLACK_WEBHOOK_URL,
                   MAINTENANCE_MODE, maintenance_flag_file, clock,
                   breach_calls, last_line, records, emitted, lastCall,
                   follower, interrupted>>

\* The signal arrives before the try block: in the wait for the log file,
\* or around Popen.  No handler of tail_log_file encloses these lines and
\* main catches Exception only, which KeyboardInterrupt is not: the
\* interpreter ends with the traceback.
InterruptOutsideTry ==
    /\ ~interrupted
    /\ pc \in {"waiting", "spawn", "started"}
    /\ interrupted' = TRUE
    /\ pc' = "dead"
    /\ UNCHANGED <<request_window, last_known_pool, failover_occurred,
                   failover_from_pool, last_alert_times, SLACK_WEBHOOK_URL,
                   MAINTENANCE_MODE, maintenance_flag_file, clock,
                   breach_calls, last_line, records, emitted, lastCall,
                   follower>>

\* The signal arrives while the loop waits in readline.
InterruptInLoop ==
    /\ ~interrupted
    /\ pc = "loop"
    /\ interrupted' = TRUE
    /\ pc' = "except"
    /\ UNCHANGED <<request_window, last_known_pool, failover_occurred,
                   failover_from_pool, last_alert_times, SLACK_WEBHOOK_URL,
                   MAINTENANCE_MODE, maintenance_flag_file, clock,
                   breach_calls, last_line, records, emitted, lastCall,
                   follower>>

\* Where process_log_entry can be cut short once the record is in the
\* window: before check_failover assigns ("append"), after its first
\* assignment ("flag"), after its second ("origin"), after its last
\* ("tracked").
Cuts == {"append", "flag", "origin", "tracked"}

\* The tracker check_failover leaves when cut short.
TrackerAtCut(ms, f, cut) ==
    IF cut = "append" \/ ~IsAlert(f.alert)
    THEN (IF cut = "tracked" THEN f.ms ELSE ms)
    ELSE IF cut = "flag"
    THEN [ms EXCEPT !.failover_occurred = TRUE]
    ELSE IF cut = "origin"
    THEN [ms EXCEPT !.failover_occurred = TRUE,
                    !.failover_from_pool = ms.last_known_pool]
    ELSE f.ms

\* The signal arrives inside process_log_entry.
InterruptInHandler ==
    /\ ~interrupted
    /\ pc = "loop"
    /\ Len(records) < MaxTailRecords
    /\ \E line \in TailLines, cut \in Cuts :
       \E data \in {parse_log_line(line)} :
       \E f \in {check_failover(MonitorState, data.pool)} :
       \E ms \in {TrackerAtCut(MonitorState, f, cut)} :
       \E run \in Dispatch(IF cut = "append" THEN <<>>
                           ELSE SelectSeq(<<f.alert>>, IsAlert),
                           last_alert_times, clock) :
           /\ data # NoData
           /\ last_line' = line
           /\ request_window' = WindowAppend(request_window, WindowEntry(data))
           /\ last_known_pool' = ms.last_known_pool
           /\ failover_occurred' = ms.failover_occurred
           /\ failover_from_pool' = ms.failover_from_pool
           /\ last_alert_times' = run.lat
           /\ clock' = run.clock
           /\ records' = Append(records, data)
           /\ emitted' = [i \in 1..Len(run.calls) |-> run.calls[i].alert_type]
           /\ lastCall' = [k \in Kinds |->
                 IF \E i \in 1..Len(run.calls) : run.calls[i].alert_type = k
                 THEN CallRecord(
                        run.calls[CHOOSE i \in 1..Len(run.calls) :
                                      run.calls[i].alert_type = k],
                        lastCall[k])
                 ELSE lastCall[k]]
    /\ interrupted' = TRUE
    /\ pc' = "except"
    /\ UNCHANGED <<SLACK_WEBHOOK_URL, MAINTENANCE_MODE, maintenance_flag_file,
                   breach_calls, follower>>

\* except KeyboardInterrupt: the loop has ended.
CatchInterrupt ==
    /\ pc = "except"
    /\ pc' = "finally"
    /\ UNCHANGED <<request_window, last_known_pool, failover_occurred,
                   failover_from_pool, last_alert_times, SLACK_WEBHOOK_URL,
                   MAINTENANCE_MODE, maintenance_flag_file, clock,
                   breach_calls, last_line, records, emitted, lastCall,
                   follower, interrupted>>

\* finally: process.terminate(), process.wait(), "[SHUTDOWN] Watcher
\* stopped".
Terminate ==
    /\ pc = "finally"
    /\ pc' = "stopped"
    /\ follower' = "terminated"
    /\ UNCHANGED <<request_window, last_known_pool, failover_occurred,
                   failover_from_pool, last_alert_times, SLACK_WEBHOOK_URL,
                   MAINTENANCE_MODE, maintenance_flag_file, clock,
                   breach_calls, last_line, records, emitted, lastCall,
                   interrupted>>

\* tail_log_file has just been entered: no follower yet, the log file not
\* yet seen.
InitShutdown ==
    /\ ModuleState
    /\ ~SLACK_WEBHOOK_URL
    /\ ~MAINTENANCE_MODE
    /\ pc = "waiting"
    /\ follower = "none"

NextShutdown ==
    \/ LogFileFound
    \/ StartFollower
    \/ EnterLoop
    \/ TailLine
    \/ InterruptOutsideTry
    \/ InterruptInLoop
    \/ InterruptInHandler
    \/ CatchInterrupt
    \/ Terminate

\* The handler of the interrupt and the finally block run to their end:
\* terminate() makes tail exit, so wait() returns.
SpecShutdown ==
    /\ InitShutdown
    /\ [][NextShutdown]_vars
    /\ WF_vars(CatchInterrupt)
    /\ WF_vars(Terminate)

----------------------------------------------------------------------------
(* Vocabulary of the properties.                                           *)

\* The step is one process_log_entry.
Handled == Len(records') = Len(records) + 1

\* The record a process_log_entry step has just handled.
Current == records'[Len(records')]

\* How many calls of a kind the last process_log_entry made.
Count(kinds, k) == Cardinality({i \in DOMAIN kinds : kinds[i] = k})

PoolsOf(recs) == [i \in DOMAIN recs |-> recs[i].pool]
StatusesOf(recs) == [i \in DOMAIN recs |-> recs[i].status]

\* The gate reached its cooldown check in the call (endpoint configured and
\* maintenance mode off), and a post was attempted in the call.
Gated(call) == call.result \in {"cooldown", "sent", "failed"}
Attempted(call) == call.result \in {"sent", "failed"}

\* The line has the ten keyed fields, in the order of the pattern, from its
\* start.
WellOrdered(line) ==
    /\ Len(line) >= 10
    /\ <<line[1].key, line[2].key, line[3].key, line[4].key, line[5].key,
         line[6].key, line[7].key, line[8].key, line[9].key, line[10].key>>
         = <<"pool", "release", "status", "upstream_status", "upstream",
             "request_time", "upstream_response_time", "method", "uri",
             "time">>

----------------------------------------------------------------------------
\* C1: whenever the tracker is failed over from a pool and process_log_entry
\* handles a record of that pool, exactly one recovery alert is emitted and
\* the tracker returns to STABLE (failover_occurred false, failover_from_pool
\* unset).  The code never does this: check_failover runs first and turns the
\* return to the origin pool into a new failover.
C1_RecoveryOnReturn ==
    [][ (Handled /\ failover_occurred /\ failover_from_pool # None
           /\ Current.pool = failover_from_pool)
        => /\ Count(emitted', "recovery") = 1
           /\ ~failover_occurred'
           /\ failover_from_pool' = None ]_vars

\* C2: a record emits a failover alert (from the previous last_known_pool to
\* the record's pool) exactly when its pool is known, last_known_pool is set
\* and the two differ; the first known pool only initialises last_known_pool.
\* Pools blue, blue, blue, green: nothing on the first three records, one
\* alert blue -> green on the fourth.
C2_FailoverDetection ==
    [][ Handled =>
        LET p == Current.pool
            known == p # "" /\ p # "-"
            fires == known /\ last_known_pool # None /\ p # last_known_pool
        IN /\ Count(emitted', "failover") = (IF fires THEN 1 ELSE 0)
           /\ fires => /\ lastCall'["failover"].from_pool = last_known_pool
                       /\ lastCall'["failover"].to_pool = p
           /\ (known /\ last_known_pool = None) => last_known_pool' = p
           /\ PoolsOf(records') \in {<<"blue">>, <<"blue", "blue">>,
                                     <<"blue", "blue", "blue">>}
                => Count(emitted', "failover") = 0
           /\ PoolsOf(records') = <<"blue", "blue", "blue", "green">>
                => /\ Count(emitted', "failover") = 1
                   /\ lastCall'["failover"].from_pool = "blue"
                   /\ lastCall'["failover"].to_pool = "green" ]_vars

C2_Witness ==
    /\ PoolsOf(records) = <<"blue", "blue", "blue", "green">>
    /\ Count(emitted, "failover") = 1
    /\ lastCall["failover"].from_pool = "blue"
    /\ lastCall["failover"].to_pool = "green"

\* C3: between two calls of process_log_entry, failover_from_pool is set
\* exactly when failover_occurred is true.
C3_FromPoolIffFailover ==
    (failover_from_pool # None) <=> failover_occurred

C3_Witness ==
    /\ failover_occurred
    /\ failover_from_pool = "blue"
    /\ last_known_pool = "green"

\* C4: after k records the window holds the last min(k, WINDOW_SIZE) of them
\* in arrival order, the oldest first, and never more than WINDOW_SIZE.
C4_WindowIsLastRecords ==
    LET k == Len(records)
        m == IF k < WINDOW_SIZE THEN k ELSE WINDOW_SIZE
    IN /\ Len(request_window) = m
       /\ Len(request_window) <= WINDOW_SIZE
       /\ \A i \in 1..m :
            /\ request_window[i].pool = records[k - m + i].pool
            /\ request_window[i].status = records[k - m + i].status

C4_Witness ==
    /\ Len(records) = WINDOW_SIZE + 2
    /\ records[1] # records[3]
    /\ records[2] # records[3]
    /\ Len(request_window) = WINDOW_SIZE
    /\ request_window[1].pool = records[3].pool
    /\ request_window[1].status = records[3].status

\* C5: a record emits an error_rate alert exactly when, with the record in
\* the window, the window holds WINDOW_SIZE records and the share of 5xx
\* among them is strictly above ERROR_RATE_THRESHOLD percent.  Statuses
\* 200, 200, 500, 200 emit none (25 is not above 25); a fifth record with
\* status 500 emits one.
C5_ErrorRateCheck ==
    [][ Handled =>
        LET w == request_window'
            errors == Cardinality({i \in DOMAIN w :
                          w[i].status >= 500 /\ w[i].status < 600})
            breach == /\ Len(w) = WINDOW_SIZE
                      /\ 100 * errors > ERROR_RATE_THRESHOLD * WINDOW_SIZE
        IN /\ Count(emitted', "error_rate") = (IF breach THEN 1 ELSE 0)
           /\ Len(records') < WINDOW_SIZE => Count(emitted', "error_rate") = 0
           /\ StatusesOf(records') = <<200, 200, 500, 200>>
                => Count(emitted', "error_rate") = 0
           /\ StatusesOf(records') = <<200, 200, 500, 200, 500>>
                => Count(emitted', "error_rate") = 1 ]_vars

C5_Witness ==
    /\ StatusesOf(records) = <<200, 200, 500, 200, 500>>
    /\ Count(emitted, "error_rate") = 1
    /\ lastCall["error_rate"].prev_result = "none"

\* C6 as stated: of two consecutive alerts of a kind that both reach the
\* cooldown check, the first being posted, the second is not posted when it
\* comes less than ALERT_COOLDOWN_SEC after the first, and is posted when it
\* comes at least ALERT_COOLDOWN_SEC after it.
C6_OnePostWithinCooldown ==
    \A k \in Kinds :
        LET c == lastCall[k]
        IN (Gated(c) /\ c.prev_result \in {"sent", "failed"})
           => /\ c.at - c.prev_at < ALERT_COOLDOWN_SEC => ~Attempted(c)
              /\ c.at - c.prev_at >= ALERT_COOLDOWN_SEC => Attempted(c)

\* C6, amended: the second alert is not posted when it comes less than
\* ALERT_COOLDOWN_SEC after a first whose post succeeded; it is posted when
\* it comes at least ALERT_COOLDOWN_SEC after a first that was posted,
\* successfully or not.
C6_OnePostWithinCooldownOfSent ==
    \A k \in Kinds :
        LET c == lastCall[k]
        IN Gated(c)
           => /\ (c.prev_result = "sent"
                    /\ c.at - c.prev_at < ALERT_COOLDOWN_SEC) => ~Attempted(c)
              /\ (c.prev_result \in {"sent", "failed"}
                    /\ c.at - c.prev_at >= ALERT_COOLDOWN_SEC) => Attempted(c)

C6_Witness ==
    LET c == lastCall["failover"]
    IN /\ c.prev_result = "sent"
       /\ c.result = "cooldown"
       /\ c.at - c.prev_at < ALERT_COOLDOWN_SEC
       /\ c.at > c.prev_at

\* C7: a call of send_slack_alert made while maintenance mode is active (the
\* MAINTENANCE_MODE flag or the flag file, either alone) posts nothing,
\* returns failure and leaves last_alert_times as it was.
C7_MaintenanceSuppresses ==
    [][ (Handled /\ (MAINTENANCE_MODE \/ maintenance_flag_file))
        => /\ \A k \in Kinds :
                Count(emitted', k) > 0
                  => lastCall'[k].result \in {"maintenance", "no_webhook"}
           /\ last_alert_times' = last_alert_times ]_vars

C7_Witness ==
    LET c == lastCall["failover"]
    IN /\ Count(emitted, "failover") = 1
       /\ c.result = "maintenance"
       /\ c.prev_result = "sent"
       /\ ~MAINTENANCE_MODE
       /\ maintenance_flag_file
       /\ last_alert_times["failover"] = c.prev_at

\* C8: a failed post of kind K leaves last_alert_times[K] as it was, and the
\* next alert of kind K that reaches the cooldown check is posted however
\* soon it comes after the failure.
C8_RetryAfterFailedPost ==
    [][ Handled =>
        \A k \in Kinds :
            Count(emitted', k) > 0
              => LET c == lastCall'[k]
                 IN /\ c.result = "failed"
                         => last_alert_times'[k] = last_alert_times[k]
                    /\ (c.prev_result = "failed" /\ Gated(c))
                         => Attempted(c) ]_vars

C8_Witness ==
    LET c == lastCall["failover"]
    IN /\ c.prev_result = "failed"
       /\ Attempted(c)
       /\ c.at = c.prev_at

\* C9: last_alert_times starts at datetime.min for the three kinds, and an
\* entry changes only by a call of its kind whose post succeeded, to the
\* instant the gate read; calls suppressed by maintenance mode or cooldown,
\* made without endpoint, or whose post failed change nothing.
C9_CooldownTableFrame ==
    /\ \A k \in Kinds : last_alert_times[k] = DATETIME_MIN
    /\ [][ \A k \in Kinds :
             /\ last_alert_times'[k] # last_alert_times[k]
                  => /\ Handled
                     /\ Count(emitted', k) = 1
                     /\ lastCall'[k].result = "sent"
             /\ (Handled /\ Count(emitted', k) = 1
                   /\ lastCall'[k].result = "sent")
                  => last_alert_times'[k] = lastCall'[k].at ]_vars

C9_Witness ==
    LET c == lastCall["failover"]
    IN /\ c.result = "sent"
       /\ last_alert_times["failover"] = c.at
       /\ clock > c.at
       /\ Count(emitted, "failover") = 1
       /\ Count(emitted, "error_rate") = 0

\* C10: a table entry changes only by a sent alert of its own kind, and an
\* alert of kind K is suppressed by cooldown exactly when it comes less than
\* ALERT_COOLDOWN_SEC after last_alert_times[K]: a sent alert of another
\* kind never suppresses it.
C10_PerKindCooldown ==
    [][ Handled =>
        \A k \in Kinds :
            /\ last_alert_times'[k] # last_alert_times[k]
                 => (Count(emitted', k) = 1 /\ lastCall'[k].result = "sent")
            /\ (Count(emitted', k) = 1 /\ Gated(lastCall'[k]))
                 => (lastCall'[k].result = "cooldown"
                       <=> lastCall'[k].at - last_alert_times[k]
                             < ALERT_COOLDOWN_SEC) ]_vars

C10_Witness ==
    /\ lastCall["failover"].result = "sent"
    /\ Attempted(lastCall["error_rate"])
    /\ lastCall["error_rate"].at - last_alert_times["failover"]
         < ALERT_COOLDOWN_SEC
    /\ lastCall["error_rate"].at >= last_alert_times["failover"]


\* C11: under a non-decreasing clock, two successful dispatches of the same
\* kind are at least ALERT_COOLDOWN_SEC apart: whenever an entry of
\* last_alert_times moves, it moves forward by at least the cooldown.
C11_MinimumSpacing ==
    [][ \A k \in Kinds :
          last_alert_times'[k] # last_alert_times[k]
            => last_alert_times'[k] - last_alert_times[k]
                 >= ALERT_COOLDOWN_SEC ]_vars

C11_Witness ==
    LET c == lastCall["failover"]
    IN /\ c.result = "sent"
       /\ c.prev_result = "sent"
       /\ last_alert_times["failover"] = c.at
       /\ c.at - c.prev_at = ALERT_COOLDOWN_SEC


\* C12: a record on which the error-rate check qualifies (window full, rate
\* strictly above the threshold) causes exactly one log_error_rate_breach
\* call, made before the alert goes to the gate, whatever the gate then does
\* with the alert; a record on which it does not qualify causes none.
C12_BreachRecording ==
    [][ Handled =>
        LET w == request_window'
            errors == Cardinality({i \in DOMAIN w :
                          w[i].status >= 500 /\ w[i].status < 600})
            breach == /\ Len(w) = WINDOW_SIZE
                      /\ 100 * errors > ERROR_RATE_THRESHOLD * WINDOW_SIZE
            n == Len(breach_calls)
        IN /\ Len(breach_calls') = n + (IF breach THEN 1 ELSE 0)
           /\ SubSeq(breach_calls', 1, n) = breach_calls
           /\ Count(emitted', "breach") = (IF breach THEN 1 ELSE 0)
           /\ breach =>
                /\ breach_calls'[n + 1] =
                     [error_count |-> errors, total_count |-> WINDOW_SIZE,
                      pool |-> Current.pool]
                /\ \E i, j \in DOMAIN emitted' :
                     /\ i < j
                     /\ emitted'[i] = "breach"
                     /\ emitted'[j] = "error_rate" ]_vars

C12_Witness ==
    /\ Len(breach_calls) >= 2
    /\ Count(emitted, "breach") = 1
    /\ lastCall["error_rate"].result = "cooldown"
    /\ lastCall["error_rate"].prev_result = "sent"


\* The monitoring state and the alert candidates of the last record, computed
\* from the records alone: no endpoint, maintenance setting, cooldown table,
\* clock or notifier outcome enters.
RECURSIVE Replay(_)
Replay(recs) ==
    IF recs = <<>>
    THEN [window |-> <<>>,
          ms |-> [last_known_pool |-> None, failover_occurred |-> FALSE,
                  failover_from_pool |-> None],
          candidates |-> <<>>]
    ELSE LET before == Replay(SubSeq(recs, 1, Len(recs) - 1))
             data == recs[Len(recs)]
             window == WindowAppend(before.window, WindowEntry(data))
             f == check_failover(before.ms, data.pool)
             r == check_recovery(f.ms, data.pool)
             e == check_error_rate(window)
         IN [window |-> window, ms |-> r.ms,
             candidates |-> SelectSeq(<<f.alert, r.alert>> \o e.calls, IsAlert)]

\* C13: the window, the tracker and the alert candidates are the same for
\* every notifier outcome, endpoint configuration, maintenance setting and
\* cooldown state: they are a function of the records alone.  After a record
\* with a failed dispatch the next record can still be processed.
C13_NotifierIndependence ==
    LET r == Replay(records)
    IN /\ request_window = r.window
       /\ MonitorState = r.ms
       /\ SelectSeq(emitted, LAMBDA k : k \in Kinds)
            = [i \in DOMAIN r.candidates |-> r.candidates[i].alert_type]
       /\ \A i \in DOMAIN r.candidates :
            LET c == r.candidates[i]
            IN /\ lastCall[c.alert_type].from_pool = c.from_pool
               /\ lastCall[c.alert_type].to_pool = c.to_pool
       /\ ( /\ Len(records) < MaxNotifierRecords
            /\ \E i \in DOMAIN emitted :
                 emitted[i] \in Kinds /\ lastCall[emitted[i]].result = "failed" )
          => ENABLED ProcessNotifierRecord

C13_Witness ==
    /\ lastCall["failover"].result = "failed"
    /\ lastCall["failover"].prev_result = "failed"
    /\ Count(emitted, "failover") = 1
    /\ failover_occurred
    /\ last_alert_times["failover"] = DATETIME_MIN


\* C14: a line with the ten keyed fields in order whose status is not a
\* non-negative integer is parsed into a record with status 0 (is_error
\* false) that is appended to the window.  The code does not do this: the
\* pattern itself asks for status=\d+, so such a line does not match and
\* parse_log_line returns None before the int() fallback can apply.
C14_StatusCoercionFallback ==
    [][ ( /\ WellOrdered(last_line')
          /\ ~IsDigits(Chars(last_line'[3].value)) )
        => /\ Handled
           /\ Current = [pool |-> last_line'[1].value, status |-> 0]
           /\ request_window'[Len(request_window')]
                = [pool |-> last_line'[1].value, status |-> 0,
                   is_error |-> FALSE] ]_vars

\* C15: a line that lacks one of the ten keyed fields, or does not have them
\* in order from its start, yields no record, and the tail loop leaves the
\* window, the tracker and the cooldown table unchanged and makes no call.
C15_ParseSkip ==
    [][ ~WellOrdered(last_line')
        => /\ parse_log_line(last_line') = NoData
           /\ UNCHANGED <<request_window, last_known_pool, failover_occurred,
                          failover_from_pool, last_alert_times, records,
                          breach_calls, emitted, lastCall>> ]_vars

C15_Witness ==
    /\ Len(records) >= 3
    /\ failover_occurred
    /\ Len(last_line) = 11
    /\ ~WellOrdered(last_line)


\* C16: on every window the tail loop can build, get_current_error_rate
\* returns (0, 0, 0) if the window is empty and otherwise (100 * e / total,
\* e, total) with total the length of the window and e the number of its
\* records with 500 <= status < 600.  The call reads the window only.
C16_ErrorRateComputation ==
    LET w == request_window
        r == get_current_error_rate(w)
        total == Len(w)
        e == Cardinality({i \in DOMAIN w :
                 500 <= w[i].status /\ w[i].status < 600})
    IN /\ r[1].den > 0
       /\ r[2] = (IF total = 0 THEN 0 ELSE e)
       /\ r[3] = total
       /\ IF total = 0 THEN r[1].num = 0
          ELSE r[1].num * total = 100 * e * r[1].den

C16_Witness ==
    /\ Len(request_window) = 3
    /\ get_current_error_rate(request_window)[2] = 2
    /\ get_current_error_rate(request_window)[1] = [num |-> 200, den |-> 3]


\* C17: a record whose pool is empty or "-" leaves last_known_pool,
\* failover_occurred and failover_from_pool as they were (unset too) and
\* raises no failover and no recovery alert; it is appended to the window
\* and the error-rate check counts it.
C17_UnknownPoolIgnored ==
    [][ (Handled /\ Current.pool \in {"", "-"})
        => LET w == request_window'
               e == Cardinality({i \in DOMAIN w :
                        500 <= w[i].status /\ w[i].status < 600})
               fires == /\ Len(w) = WINDOW_SIZE
                        /\ 100 * e > ERROR_RATE_THRESHOLD * WINDOW_SIZE
           IN /\ UNCHANGED <<last_known_pool, failover_occurred,
                             failover_from_pool>>
              /\ Count(emitted', "failover") = 0
              /\ Count(emitted', "recovery") = 0
              /\ w # <<>>
              /\ w[Len(w)].pool = Current.pool
              /\ w[Len(w)].status = Current.status
              /\ Count(emitted', "error_rate") = (IF fires THEN 1 ELSE 0) ]_vars

C17_Witness ==
    /\ Len(records) = 4
    /\ records[4].pool = ""
    /\ records[1].pool = "-"
    /\ StatusesOf(records) = <<500, 200, 200, 500>>
    /\ last_known_pool = "blue"
    /\ ~failover_occurred
    /\ emitted = <<"breach", "error_rate">>


\* C18: the calls process_log_entry makes for one record never include both
\* a failover alert and a recovery alert.
C18_FailoverRecoveryExclusive ==
    Count(emitted, "failover") + Count(emitted, "recovery") <= 1

\* The record returns to the pool the tracker had failed over from.
C18_Witness ==
    /\ PoolsOf(records) = <<"blue", "green", "blue">>
    /\ Count(emitted, "failover") = 1
    /\ Count(emitted, "recovery") = 0
    /\ lastCall["failover"].from_pool = "green"
    /\ lastCall["failover"].to_pool = "blue"

\* C19: a record whose known pool differs from last_known_pool makes the
\* tracker failed over from the last_known_pool of just before, with
\* last_known_pool the record's pool, whatever origin it held.  After pools
\* A, B, C: failed over from B, last_known_pool C.
C19_LastWriterWins ==
    [][ ( /\ Handled
          /\ Current.pool \notin {"", "-"}
          /\ last_known_pool # None
          /\ Current.pool # last_known_pool )
        => /\ failover_occurred'
           /\ failover_from_pool' = last_known_pool
           /\ last_known_pool' = Current.pool ]_vars

C19_Witness ==
    /\ PoolsOf(records) = <<"blue", "green", "canary">>
    /\ failover_occurred
    /\ failover_from_pool = "green"
    /\ last_known_pool = "canary"


\* C20: process_log_entry appends the record, then runs check_failover,
\* check_recovery and check_error_rate in this order, all within the one
\* record: the failover or recovery alert of a record reaches the gate before
\* its error_rate alert, and the error-rate check decides on the window that
\* holds the record.
C20_PerRecordOrdering ==
    [][ Handled =>
        LET w == request_window'
            e == Cardinality({i \in DOMAIN w :
                     500 <= w[i].status /\ w[i].status < 600})
            fires == /\ Len(w) = WINDOW_SIZE
                     /\ 100 * e > ERROR_RATE_THRESHOLD * WINDOW_SIZE
        IN /\ w[Len(w)] = [pool |-> Current.pool, status |-> Current.status,
                           is_error |-> (500 <= Current.status
                                           /\ Current.status < 600)]
           /\ emitted' \in
                {<<>>, <<"failover">>, <<"recovery">>,
                 <<"breach", "error_rate">>,
                 <<"failover", "breach", "error_rate">>,
                 <<"recovery", "breach", "error_rate">>}
           /\ Count(emitted', "error_rate") = (IF fires THEN 1 ELSE 0)
           /\ \A k \in {"failover", "recovery"} :
                ( /\ Count(emitted', k) = 1
                  /\ Count(emitted', "error_rate") = 1
                  /\ Gated(lastCall'[k])
                  /\ Gated(lastCall'["error_rate"]) )
                => /\ clock <= lastCall'[k].at
                   /\ lastCall'[k].at <= lastCall'["error_rate"].at
                   /\ lastCall'["error_rate"].at <= clock' ]_vars

C20_Witness ==
    /\ PoolsOf(records) = <<"blue", "blue", "blue", "green">>
    /\ StatusesOf(records) = <<200, 200, 500, 500>>
    /\ emitted = <<"failover", "breach", "error_rate">>
    /\ lastCall["failover"].result = "sent"
    /\ lastCall["error_rate"].result = "sent"
    /\ lastCall["failover"].at < lastCall["error_rate"].at


\* C21: once an interrupt signal has been received, wherever tail_log_file
\* stood (the wait for the log file included), the run reaches the
\* "Watcher stopped" step with the follower, if one was started, terminated;
\* no record is processed after the signal; and the tracker keeps
\* failover_from_pool set iff failover_occurred.  The code does this only
\* for a signal that arrives inside the try block and outside the tracker
\* assignments of check_failover.
C21_OrderlyShutdown ==
    /\ [](interrupted => <>(pc = "stopped" /\ follower # "running"))
    /\ [][interrupted => records' = records]_vars
    /\ [](interrupted => (failover_occurred <=> failover_from_pool # None))


\* The pools of the records that name one.
KnownPoolsOf(recs) == SelectSeq(PoolsOf(recs), LAMBDA p : p \notin {"", "-"})

\* A failed-over tracker has a known pool as origin, other than
\* last_known_pool; last_known_pool is the pool of the latest record that
\* names one, and unset while there is none.
TrackerConsistent(ms, recs) ==
    LET known == KnownPoolsOf(recs)
    IN /\ ms.failover_occurred
            => /\ ms.failover_from_pool \notin {None, "", "-"}
               /\ ms.failover_from_pool # ms.last_known_pool
               /\ known # <<>>
       /\ ms.last_known_pool
            = (IF known = <<>> THEN None ELSE known[Len(known)])

\* C22: the tracker is consistent with the records in every state between
\* two calls of process_log_entry, and inside a call at the moment
\* check_recovery is entered, check_failover having handled the record.
C22_TrackerConsistency ==
    /\ TrackerConsistent(MonitorState, records)
    /\ [][ /\ TrackerConsistent(MonitorState', records')
           /\ Handled =>
                TrackerConsistent(
                    check_failover(MonitorState, Current.pool).ms,
                    records') ]_vars

\* check_recovery has been entered on a record that returns to the origin.
C22_Witness ==
    /\ PoolsOf(records) = <<"blue", "green", "-", "blue">>
    /\ failover_occurred
    /\ failover_from_pool = "green"
    /\ last_known_pool = "blue"

====
